---- MODULE Spec2Model ----
(***************************************************************************)
(* skill-sync (bin/cli.js): mirroring of skills and subagents between the  *)
(* AI tool directories of a working tree, and the global skill registry.   *)
(*                                                                         *)
(* The filesystem is a function from paths (sequences of names, relative   *)
(* to the working directory; the home directory is the name "~") to nodes. *)
(* Every command of the CLI is one action that runs the whole handler.     *)
(***************************************************************************)
EXTENDS Integers, Sequences, FiniteSets, TLC

VARIABLES fs, pre, cmd, out, log, n

vars == <<fs, pre, cmd, out, log, n>>

(***************************************************************************)
(* Bounds of the model.                                                    *)
(***************************************************************************)
\* number of commands run one after the other on the same tree
MaxSteps == 2

(***************************************************************************)
(* The tool registry.                                                      *)
(***************************************************************************)
AI_TOOLS ==
  [ cursor   |-> [dir |-> ".cursor",   skillsDir |-> "skills", subagentsDir |-> "subagents", configFile |-> "settings.json"],
    claude   |-> [dir |-> ".claude",   skillsDir |-> "skills", subagentsDir |-> "subagents", configFile |-> "claude.json"],
    codex    |-> [dir |-> ".codex",    skillsDir |-> "skills", subagentsDir |-> "subagents", configFile |-> "config.json"],
    windsurf |-> [dir |-> ".windsurf", skillsDir |-> "skills", subagentsDir |-> "subagents", configFile |-> "settings.json"],
    aider    |-> [dir |-> ".aider",    skillsDir |-> "skills", subagentsDir |-> "subagents", configFile |-> "aider.conf.yml"],
    opencode |-> [dir |-> ".opencode", skillsDir |-> "skills", subagentsDir |-> "subagents", configFile |-> "settings.json"] ]

\* Object.keys(AI_TOOLS) / Object.entries(AI_TOOLS): insertion order
ToolOrder == <<"cursor", "claude", "codex", "windsurf", "aider", "opencode">>

\* path.join(os.homedir(), '.skill-sync', 'global-skills')
GLOBAL_SKILLS_DIR == <<"~", ".skill-sync", "global-skills">>

(***************************************************************************)
(* Names and file contents the model draws from.                           *)
(***************************************************************************)
\* the order in which fs.readdirSync lists the names of a directory
ListingOrder ==
  <<"D", "a.md", "b.md", "c.json", "notes.txt", "s.md", "sub", "x.md", "y.md", "z.md">>

\* String.prototype.endsWith, tabulated on the names of the model
endsWith(item, suffix) ==
  CASE suffix = ".md"   -> item \in {"a.md", "b.md", "s.md", "x.md", "y.md", "z.md"}
    [] suffix = ".json" -> item \in {"c.json", "settings.json", "claude.json", "config.json"}
    [] OTHER            -> FALSE

Text(t) == [text |-> t]

(***************************************************************************)
(* Filesystem primitives (node:fs, node:path).                             *)
(***************************************************************************)
DirNode == [kind |-> "dir", content |-> Text("")]

FileNode(c) == [kind |-> "file", content |-> c]

EmptyFs == [p \in {} |-> DirNode]

\* path.join(p, item)
join(p, item) == Append(p, item)

\* path.dirname(p)
dirname(p) == SubSeq(p, 1, Len(p) - 1)

\* path.basename(p)
basename(p) == p[Len(p)]

\* fs.existsSync(p); the working directory itself (the empty path) exists
existsSync(f, p) == p = <<>> \/ p \in DOMAIN f

\* fs.statSync(p).isDirectory()
isDirectory(f, p) == p = <<>> \/ (p \in DOMAIN f /\ f[p].kind = "dir")

\* fs.statSync(p).isFile()
isFile(f, p) == p \in DOMAIN f /\ f[p].kind = "file"

\* fs.readdirSync(p)
readdirSync(f, p) == SelectSeq(ListingOrder, LAMBDA item : join(p, item) \in DOMAIN f)

Prefixes(p) == {SubSeq(p, 1, k) : k \in 1..Len(p)}

\* fs.mkdirSync(p, { recursive: true }): fails when a component is a file
mkdirSync(f, p) ==
  IF \E q \in Prefixes(p) : isFile(f, q)
  THEN [fs |-> f, ok |-> FALSE]
  ELSE [fs |-> [q \in DOMAIN f \cup Prefixes(p) |-> IF q \in DOMAIN f THEN f[q] ELSE DirNode],
        ok |-> TRUE]

\* fs.writeFileSync(p, data): the parent must be a directory, p must not be one
writeFileSync(f, p, data) ==
  IF isDirectory(f, dirname(p)) /\ ~isDirectory(f, p)
  THEN [fs |-> [q \in DOMAIN f \cup {p} |-> IF q = p THEN FileNode(data) ELSE f[q]],
        ok |-> TRUE]
  ELSE [fs |-> f, ok |-> FALSE]

\* fs.copyFileSync(src, dst): src must be a regular file
copyFileSync(f, src, dst) ==
  IF isFile(f, src)
  THEN writeFileSync(f, dst, f[src].content)
  ELSE [fs |-> f, ok |-> FALSE]

(***************************************************************************)
(* detectTools                                                             *)
(***************************************************************************)
\* a scanner that lists regular files only
IsEntry_FilesOnly(f, itemPath) ==
  isFile(f, itemPath) /\ (endsWith(basename(itemPath), ".md") \/ endsWith(basename(itemPath), ".json"))

\* a scanner that lists every item, whatever its name
IsEntry_AnyItem(f, itemPath) == existsSync(f, itemPath)

\* the filter of one category: regular files ending in .md or .json, and
\* every directory
IsEntry(f, itemPath) ==
  \/ (isFile(f, itemPath) /\ (endsWith(basename(itemPath), ".md") \/ endsWith(basename(itemPath), ".json")))
  \/ isDirectory(f, itemPath)

ScanDir(f, dirPath) ==
  IF existsSync(f, dirPath) /\ isDirectory(f, dirPath)
  THEN LET items == readdirSync(f, dirPath)
           kept  == SelectSeq(items, LAMBDA item : IsEntry(f, join(dirPath, item)))
       IN  [i \in 1..Len(kept) |-> join(dirPath, kept[i])]
  ELSE <<>>

toolPath(name) == <<AI_TOOLS[name].dir>>

detectTools(f) ==
  [name \in {t \in DOMAIN AI_TOOLS : existsSync(f, toolPath(t))} |->
     [path      |-> toolPath(name),
      skills    |-> ScanDir(f, join(toolPath(name), AI_TOOLS[name].skillsDir)),
      subagents |-> ScanDir(f, join(toolPath(name), AI_TOOLS[name].subagentsDir))]]

\* Object.keys(detected)
DetectedKeys(detected) == SelectSeq(ToolOrder, LAMBDA t : t \in DOMAIN detected)

(***************************************************************************)
(* initTool                                                                *)
(***************************************************************************)
\* a config stub named after the tool's directory
defaultConfig_DirName(toolName, now) ==
  [name |-> AI_TOOLS[toolName].dir, version |-> "1.0.0", created |-> now]

\* JSON.stringify({name, version, created}); the clock is the step number
defaultConfig(toolName, now) == [name |-> toolName, version |-> "1.0.0", created |-> now]

EnsureDir(st, p) ==
  IF ~st.ok \/ existsSync(st.fs, p) THEN st ELSE mkdirSync(st.fs, p)

\* an init that creates the tool's root directory only
initTool_RootOnly(f, toolName, now) ==
  EnsureDir([fs |-> f, ok |-> TRUE], toolPath(toolName))

initTool(f, toolName, now) ==
  LET config == AI_TOOLS[toolName]
      tp     == toolPath(toolName)
      s1     == EnsureDir([fs |-> f, ok |-> TRUE], tp)
      s2     == EnsureDir(s1, join(tp, config.skillsDir))
      s3     == EnsureDir(s2, join(tp, config.subagentsDir))
      cp     == join(tp, config.configFile)
  IN  IF ~s3.ok \/ existsSync(s3.fs, cp)
      THEN s3
      ELSE writeFileSync(s3.fs, cp, defaultConfig(toolName, now))

(***************************************************************************)
(* copyDirectory                                                           *)
(***************************************************************************)
\* a copier that writes every leaf file, whatever the overwrite flag
LeafWrite_Always(f, targetPath, options) == TRUE

\* the gate of a leaf file write
LeafWrite(f, targetPath, options) == ~existsSync(f, targetPath) \/ options.force

RECURSIVE copyDirectory(_, _, _, _), CopyItems(_, _, _, _, _)

CopyItems(st, source, target, items, options) ==
  IF ~st.ok \/ items = <<>>
  THEN st
  ELSE LET item       == Head(items)
           sourcePath == join(source, item)
           targetPath == join(target, item)
           nxt == IF isDirectory(st.fs, sourcePath)
                  THEN copyDirectory(st.fs, sourcePath, targetPath, options)
                  ELSE IF LeafWrite(st.fs, targetPath, options)
                       THEN copyFileSync(st.fs, sourcePath, targetPath)
                       ELSE st
       IN  CopyItems(nxt, source, target, Tail(items), options)

\* a copier that empties an existing target directory before it copies
copyDirectory_Replacing(f, source, target, options) ==
  LET cleared == [p \in {q \in DOMAIN f : ~(Len(q) > Len(target) /\ SubSeq(q, 1, Len(target)) = target)} |-> f[p]]
      s1 == IF ~existsSync(cleared, target) THEN mkdirSync(cleared, target) ELSE [fs |-> cleared, ok |-> TRUE]
  IN  IF ~s1.ok \/ ~isDirectory(s1.fs, source)
      THEN [fs |-> s1.fs, ok |-> FALSE]
      ELSE CopyItems(s1, source, target, readdirSync(s1.fs, source), options)

copyDirectory(f, source, target, options) ==
  LET s1 == IF ~existsSync(f, target) THEN mkdirSync(f, target) ELSE [fs |-> f, ok |-> TRUE]
  IN  IF ~s1.ok \/ ~isDirectory(s1.fs, source)
      THEN [fs |-> s1.fs, ok |-> FALSE]
      ELSE CopyItems(s1, source, target, readdirSync(s1.fs, source), options)

(***************************************************************************)
(* mirror                                                                  *)
(***************************************************************************)
\* a fatal error: console.error and process.exit(1)
Fatal(f, kind) == [fs |-> f, out |-> kind, log |-> <<>>]

\* a mirror that collects the skills whatever the filter
IncludeSkills_Always(options) == TRUE

\* "if (!options.subagentsOnly)": the skills are collected
IncludeSkills(options) == ~options.subagentsOnly

\* a mirror that collects the subagents whatever the filter
IncludeSubagents_Always(options) == TRUE

\* "if (!options.skillsOnly)": the subagents are collected
IncludeSubagents(options) == ~options.skillsOnly

\* the filesToSync entries of one category
Collect(entries, targetDir, type) ==
  [i \in 1..Len(entries) |->
     [source |-> entries[i],
      target |-> join(targetDir, basename(entries[i])),
      type   |-> type,
      name   |-> basename(entries[i])]]

\* a mirror that plans its ops from the target's entries into the source
filesToSync_Reversed(source, target, targetTool, options) ==
  (IF IncludeSkills(options)
   THEN Collect(target.skills, join(source.path, AI_TOOLS[targetTool].skillsDir), "skill")
   ELSE <<>>)
  \o
  (IF IncludeSubagents(options)
   THEN Collect(target.subagents, join(source.path, AI_TOOLS[targetTool].subagentsDir), "subagent")
   ELSE <<>>)

filesToSync(source, target, targetTool, options) ==
  (IF IncludeSkills(options)
   THEN Collect(source.skills, join(target.path, AI_TOOLS[targetTool].skillsDir), "skill")
   ELSE <<>>)
  \o
  (IF IncludeSubagents(options)
   THEN Collect(source.subagents, join(target.path, AI_TOOLS[targetTool].subagentsDir), "subagent")
   ELSE <<>>)

\* a mirror that never skips an existing target
ShouldSkip_Never(exists, options) == FALSE

\* a mirror with the force test inverted
ShouldSkip_ForceInverted(exists, options) == exists /\ options.force

\* "if (exists && !options.force)": the op is skipped
ShouldSkip(exists, options) == exists /\ ~options.force

\* one line of the operation log
OpResult(file, decision) ==
  [type |-> file.type, name |-> file.name, target |-> file.target, decision |-> decision]

\* the copy of one op: a directory by copyDirectory, a file by copyFileSync
\* after creating the target's parent directory
CopyOp(f, file, options) ==
  IF ~existsSync(f, file.source)
  THEN [fs |-> f, ok |-> FALSE]
  ELSE IF isDirectory(f, file.source)
       THEN copyDirectory(f, file.source, file.target, options)
       ELSE LET targetDir == dirname(file.target)
                s1 == IF ~existsSync(f, targetDir) THEN mkdirSync(f, targetDir)
                      ELSE [fs |-> f, ok |-> TRUE]
            IN  IF ~s1.ok THEN s1 ELSE copyFileSync(s1.fs, file.source, file.target)

RECURSIVE ApplyOps(_, _, _, _)

\* the loop over filesToSync; an exception of a copy is not caught and ends
\* the process ("crash"), leaving what was written so far
ApplyOps(f, files, options, results) ==
  IF files = <<>>
  THEN [fs |-> f, out |-> "ok", results |-> results]
  ELSE LET file   == Head(files)
           exists == existsSync(f, file.target)
       IN  IF options.dryRun
           THEN ApplyOps(f, Tail(files), options,
                         Append(results, OpResult(file, IF exists THEN "would-update" ELSE "would-create")))
           ELSE IF ShouldSkip(exists, options)
                THEN ApplyOps(f, Tail(files), options,
                              Append(results, OpResult(file, "skipped-exists")))
                ELSE LET r == CopyOp(f, file, options)
                     IN  IF ~r.ok
                         THEN [fs |-> r.fs, out |-> "crash", results |-> results]
                         ELSE ApplyOps(r.fs, Tail(files), options,
                                       Append(results, OpResult(file, IF exists THEN "updated" ELSE "created")))

\* the record of one mirror call in the log
MirrorRec(sourceTool, targetTool, o, planned, results) ==
  [source |-> sourceTool, target |-> targetTool, out |-> o, planned |-> planned, results |-> results]

\* a mirror that initializes the target before it looks for the source
SourceNotFound_AfterInit(f, targetTool, now) ==
  Fatal(IF existsSync(f, toolPath(targetTool)) THEN f ELSE initTool(f, targetTool, now).fs,
        "SourceNotFound")

\* "if (!detectedTools[sourceTool])": the error exit taken before the target
\* is looked at
SourceNotFound(f, targetTool, now) == Fatal(f, "SourceNotFound")

mirror(f, sourceTool, targetTool, options, now) ==
  IF sourceTool \notin DOMAIN AI_TOOLS \/ targetTool \notin DOMAIN AI_TOOLS
  THEN Fatal(f, "UnknownTool")
  ELSE LET detected == detectTools(f)
       IN  IF sourceTool \notin DOMAIN detected
           THEN SourceNotFound(f, targetTool, now)
           ELSE LET absent == targetTool \notin DOMAIN detected
                    ini    == IF absent THEN initTool(f, targetTool, now) ELSE [fs |-> f, ok |-> TRUE]
                IN  IF ~ini.ok
                    THEN Fatal(ini.fs, "crash")
                    ELSE LET source == detected[sourceTool]
                             target == IF absent THEN detectTools(ini.fs)[targetTool] ELSE detected[targetTool]
                             files  == filesToSync(source, target, targetTool, options)
                         IN  IF Len(files) = 0
                             THEN [fs  |-> ini.fs, out |-> "nothing",
                                   log |-> <<MirrorRec(sourceTool, targetTool, "nothing", 0, <<>>)>>]
                             ELSE LET r == ApplyOps(ini.fs, files, options, <<>>)
                                  IN  [fs  |-> r.fs, out |-> r.out,
                                       log |-> <<MirrorRec(sourceTool, targetTool, r.out, Len(files), r.results)>>]

(***************************************************************************)
(* syncAll                                                                 *)
(***************************************************************************)
\* a sync that mirrors each pair in one direction only
PairSelected_OneWay(i, j) == i < j

\* "if (i !== j)"
PairSelected(i, j) == i # j

\* the (i, j) of the two nested loops, in loop order
LoopPairs(k) == [m \in 1..(k * k) |-> <<((m - 1) \div k) + 1, ((m - 1) % k) + 1>>]

RECURSIVE SyncPairs(_, _, _, _, _, _)

SyncPairs(f, tools, pairs, options, now, lg) ==
  IF pairs = <<>>
  THEN [fs |-> f, out |-> "ok", log |-> lg]
  ELSE LET i == Head(pairs)[1]
           j == Head(pairs)[2]
       IN  IF ~PairSelected(i, j)
           THEN SyncPairs(f, tools, Tail(pairs), options, now, lg)
           ELSE LET r == mirror(f, tools[i], tools[j], options, now)
                IN  IF r.out \in {"ok", "nothing"}
                    THEN SyncPairs(r.fs, tools, Tail(pairs), options, now, lg \o r.log)
                    ELSE [fs |-> r.fs, out |-> r.out, log |-> lg \o r.log]

syncAll(f, options, now) ==
  LET detected == detectTools(f)
      tools    == DetectedKeys(detected)
  IN  IF Len(tools) < 2
      THEN [fs |-> f, out |-> "insufficient", log |-> <<>>]
      ELSE SyncPairs(f, tools, LoopPairs(Len(tools)), options, now, <<>>)

(***************************************************************************)
(* The global skill registry                                               *)
(***************************************************************************)
ensureGlobalSkillsDir(f) ==
  IF ~existsSync(f, GLOBAL_SKILLS_DIR) THEN mkdirSync(f, GLOBAL_SKILLS_DIR)
  ELSE [fs |-> f, ok |-> TRUE]

\* the source of an add: the given path or, when none is given (the empty
\* path), the skill of that name under .cursor/skills, then .claude/skills
ResolveSource(f, skillName, sourcePath) ==
  LET cursorSkillPath == <<".cursor", "skills", skillName>>
      claudeSkillPath == <<".claude", "skills", skillName>>
  IN  IF sourcePath # <<>> THEN sourcePath
      ELSE IF existsSync(f, cursorSkillPath) THEN cursorSkillPath
      ELSE IF existsSync(f, claudeSkillPath) THEN claudeSkillPath
      ELSE <<>>

\* an add that never refuses
AddRefused_Never(f, targetPath, options) == FALSE

\* "if (fs.existsSync(targetPath))": the add is refused with a warning
AddRefused(f, targetPath, options) == existsSync(f, targetPath)

addGlobalSkill(f, skillName, sourcePath, options) ==
  LET s0 == ensureGlobalSkillsDir(f)
      resolved == ResolveSource(s0.fs, skillName, sourcePath)
      targetPath == join(GLOBAL_SKILLS_DIR, skillName)
  IN  IF ~s0.ok THEN Fatal(s0.fs, "crash")
      ELSE IF resolved = <<>> THEN Fatal(s0.fs, "SkillNotFound")
      ELSE IF ~existsSync(s0.fs, resolved) THEN Fatal(s0.fs, "SourceMissing")
      ELSE IF AddRefused(s0.fs, targetPath, options) THEN Fatal(s0.fs, "warn-exists")
      ELSE LET r == IF isDirectory(s0.fs, resolved)
                    THEN copyDirectory(s0.fs, resolved, targetPath, options)
                    ELSE copyFileSync(s0.fs, resolved, targetPath)
           IN  Fatal(r.fs, IF r.ok THEN "added" ELSE "crash")

\* one line of the install log
InstallRec(tool, decision) ==
  [source |-> "global", target |-> tool, out |-> decision, planned |-> 0, results |-> <<>>]

\* an install that tests the tool registry where the code tests detection
InstallToolMissing_Unregistered(detected, tool) == tool \notin DOMAIN AI_TOOLS

\* "if (!detected[tool])": the tool is skipped with a warning
InstallToolMissing(detected, tool) == tool \notin DOMAIN detected

\* an install that never skips an existing entry
InstallSkips_Never(f, targetPath) == FALSE

\* "if (fs.existsSync(targetPath))": the tool is skipped, whatever the flags
InstallSkips(f, targetPath) == existsSync(f, targetPath)

RECURSIVE InstallTools(_, _, _, _, _)

InstallTools(f, tools, detected, skillName, lg) ==
  IF tools = <<>>
  THEN [fs |-> f, out |-> "installed", log |-> lg]
  ELSE LET tool == Head(tools)
       IN  IF InstallToolMissing(detected, tool)
           THEN InstallTools(f, Tail(tools), detected, skillName, Append(lg, InstallRec(tool, "skipped-absent")))
           ELSE LET globalSkillPath == join(GLOBAL_SKILLS_DIR, skillName)
                    \* detected[tool].path is toolPath(tool)
                    targetPath == join(join(toolPath(tool), AI_TOOLS[tool].skillsDir), skillName)
                IN  IF InstallSkips(f, targetPath)
                    THEN InstallTools(f, Tail(tools), detected, skillName, Append(lg, InstallRec(tool, "skipped-exists")))
                    ELSE LET r == IF isDirectory(f, globalSkillPath)
                                  THEN copyDirectory(f, globalSkillPath, targetPath, [force |-> FALSE])
                                  ELSE copyFileSync(f, globalSkillPath, targetPath)
                         IN  IF ~r.ok
                             THEN [fs |-> r.fs, out |-> "crash", log |-> lg]
                             ELSE InstallTools(r.fs, Tail(tools), detected, skillName,
                                               Append(lg, InstallRec(tool, "installed")))

\* targetTool = "" stands for no tool argument
installGlobalSkill(f, skillName, targetTool) ==
  LET s0 == ensureGlobalSkillsDir(f)
      globalSkillPath == join(GLOBAL_SKILLS_DIR, skillName)
  IN  IF ~s0.ok THEN Fatal(s0.fs, "crash")
      ELSE IF ~existsSync(s0.fs, globalSkillPath) THEN Fatal(s0.fs, "GlobalSkillNotFound")
      ELSE LET detected == detectTools(s0.fs)
               tools == IF targetTool # "" THEN <<targetTool>> ELSE DetectedKeys(detected)
           IN  IF Len(tools) = 0 THEN Fatal(s0.fs, "NoToolsDetected")
               ELSE InstallTools(s0.fs, tools, detected, skillName, <<>>)

\* the exit status of the process for an outcome
ExitCode(o) ==
  IF o \in {"UnknownTool", "SourceNotFound", "SkillNotFound", "SourceMissing",
            "GlobalSkillNotFound", "NoToolsDetected", "crash"}
  THEN 1 ELSE 0

(***************************************************************************)
(* Starting trees                                                          *)
(***************************************************************************)
D(p) == p :> DirNode

F(p, t) == p :> FileNode(Text(t))

Skeleton(r) == D(<<r>>) @@ D(<<r, "skills">>) @@ D(<<r, "subagents">>)

\* the layouts a tool directory starts in
Layout(r, k) ==
  CASE k = "absent" -> EmptyFs
    [] k = "bare"   -> D(<<r>>)
    [] k = "one"    -> Skeleton(r) @@ F(<<r, "skills", "a.md">>, "v1")
    [] k = "rich"   -> Skeleton(r)
                       @@ F(<<r, "skills", "a.md">>, "v2")
                       @@ D(<<r, "skills", "D">>)
                       @@ F(<<r, "skills", "D", "x.md">>, "v2")
                       @@ F(<<r, "skills", "D", "y.md">>, "v2")
                       @@ D(<<r, "skills", "D", "sub">>)
                       @@ F(<<r, "skills", "D", "sub", "z.md">>, "v2")
                       @@ F(<<r, "subagents", "s.md">>, "v2")
    [] k = "stale"  -> Skeleton(r)
                       @@ F(<<r, "skills", "b.md">>, "v1")
                       @@ D(<<r, "skills", "D">>)
                       @@ F(<<r, "skills", "D", "x.md">>, "v1")
                       @@ F(<<r, "skills", "notes.txt">>, "v1")
                       @@ F(<<r, "subagents", "s.md">>, "v1")
    [] k = "odd"    -> D(<<r>>) @@ D(<<r, "skills">>)
                       @@ F(<<r, "skills", "D">>, "v1")
                       @@ F(<<r, "skills", "b.md">>, "v2")
                       @@ F(<<r, "skills", "c.json">>, "v1")

\* files outside the tool directories, the sources of "global add <name> <path>"
External ==
  D(<<"ext">>) @@ F(<<"ext", "p1.md">>, "v1") @@ F(<<"ext", "p2.md">>, "v2")
  @@ D(<<"ext", "pd">>) @@ F(<<"ext", "pd", "x.md">>, "v1")

\* the layouts of .cursor, .claude and .codex at the start
StartLayouts ==
  { <<"absent", "absent", "absent">>,
    <<"one",    "absent", "absent">>,
    <<"one",    "stale",  "absent">>,
    <<"one",    "bare",   "absent">>,
    <<"rich",   "stale",  "absent">>,
    <<"rich",   "stale",  "one">>,
    <<"stale",  "rich",   "one">>,
    <<"rich",   "odd",    "absent">>,
    <<"odd",    "rich",   "absent">>,
    <<"absent", "rich",   "one">> }

InitialTrees ==
  { External @@ Layout(".cursor", k[1]) @@ Layout(".claude", k[2]) @@ Layout(".codex", k[3]) :
      k \in StartLayouts }

(***************************************************************************)
(* Commands                                                                *)
(***************************************************************************)
Options == [skillsOnly : BOOLEAN, subagentsOnly : BOOLEAN, dryRun : BOOLEAN, force : BOOLEAN]

NoOptions == [skillsOnly |-> FALSE, subagentsOnly |-> FALSE, dryRun |-> FALSE, force |-> FALSE]

\* --force alone, or no flag
ForceOnly == {o \in Options : ~o.skillsOnly /\ ~o.subagentsOnly /\ ~o.dryRun}

\* <source> <target> of a mirror between registered tools
MirrorArgs ==
  { <<"cursor", "claude">>, <<"claude", "cursor">>, <<"cursor", "codex">> }

\* <source> <target> of a mirror with an unregistered id
BadMirrorArgs == { <<"bogus", "cursor">>, <<"cursor", "bogus">> }

\* <skill-name> [path] of a global add; the empty path stands for no path
AddArgs ==
  { <<"a.md", <<>>>>, <<"a.md", <<"ext", "p1.md">>>>, <<"a.md", <<"ext", "p2.md">>>>,
    <<"a.md", <<"ext", "nope">>>>, <<"D", <<>>>>, <<"D", <<"ext", "pd">>>> }

SkillNames == {"a.md", "D"}

Command(op, a, b, name, path, options) ==
  [op |-> op, source |-> a, target |-> b, name |-> name, path |-> path, options |-> options]

Run(c, r) ==
  /\ n < MaxSteps
  /\ n' = n + 1
  /\ cmd' = c
  /\ pre' = fs
  /\ fs' = r.fs
  /\ out' = r.out
  /\ log' = r.log

Init ==
  /\ fs \in InitialTrees
  /\ pre = fs
  /\ cmd = Command("none", "", "", "", <<>>, NoOptions)
  /\ out = "none"
  /\ log = <<>>
  /\ n = 0

\* skill-sync mirror <source> <target> [flags]
Mirror ==
  \/ \E a \in MirrorArgs, o \in Options :
       Run(Command("mirror", a[1], a[2], "", <<>>, o), mirror(fs, a[1], a[2], o, n))
  \/ \E a \in BadMirrorArgs, o \in ForceOnly :
       Run(Command("mirror", a[1], a[2], "", <<>>, o), mirror(fs, a[1], a[2], o, n))

\* skill-sync sync [flags]
Sync ==
  \E o \in Options :
    Run(Command("sync", "", "", "", <<>>, o), syncAll(fs, o, n))

\* skill-sync init <tool>
InitCmd ==
  \E t \in {"cursor", "codex", "bogus"} :
    Run(Command("init", "", t, "", <<>>, NoOptions),
        IF t \in DOMAIN AI_TOOLS
        THEN LET r == initTool(fs, t, n) IN Fatal(r.fs, IF r.ok THEN "ok" ELSE "crash")
        ELSE Fatal(fs, "UnknownTool"))

\* skill-sync global add <skill-name> [path] [--force]
GlobalAdd ==
  \E a \in AddArgs, o \in ForceOnly :
    Run(Command("add", "", "", a[1], a[2], o), addGlobalSkill(fs, a[1], a[2], o))

\* skill-sync global install <skill-name> [tool] [--force]
GlobalInstall ==
  \E nm \in SkillNames, t \in {"", "claude", "bogus"}, o \in ForceOnly :
    Run(Command("install", "", t, nm, <<>>, o), installGlobalSkill(fs, nm, t))

Next == Mirror \/ Sync \/ InitCmd \/ GlobalAdd \/ GlobalInstall

Spec == Init /\ [][Next]_vars

(***************************************************************************)
(* copyDirectory on its own                                                *)
(***************************************************************************)
\* <source> <target> of a directory copy: existing and new targets, one and
\* more levels deep
CopyArgs ==
  { << <<".cursor", "skills", "D">>, <<".claude", "skills", "D">> >>,
    << <<".claude", "skills", "D">>, <<".cursor", "skills", "D">> >>,
    << <<".cursor", "skills">>,      <<".claude", "skills">> >>,
    << <<".claude", "skills">>,      <<".cursor", "skills">> >>,
    << <<".cursor", "skills", "D">>, <<".codex", "skills", "D">> >>,
    << <<"ext", "pd">>,              <<".cursor", "skills", "D">> >> }

\* copyDirectory(source, target, {force}) called on a source directory
CopyStep ==
  \E a \in CopyArgs, o \in ForceOnly :
    /\ a[1] \in DOMAIN fs /\ isDirectory(fs, a[1])
    /\ Run(Command("copy", "", "", "", a, o),
           LET r == copyDirectory(fs, a[1], a[2], o)
           IN  Fatal(r.fs, IF r.ok THEN "ok" ELSE "crash"))

NextCopy == CopyStep

SpecCopy == Init /\ [][NextCopy]_vars

(***************************************************************************)
(* Vocabulary of the properties                                            *)
(***************************************************************************)
Range(sq) == {sq[i] : i \in 1..Len(sq)}

\* p is root or lies below it
Under(p, root) == Len(p) >= Len(root) /\ SubSeq(p, 1, Len(root)) = root

\* p lies strictly below root
Below(p, root) == Len(p) > Len(root) /\ SubSeq(p, 1, Len(root)) = root

\* the part of a tree at and below root
Subtree(f, root) == [p \in {q \in DOMAIN f : Under(q, root)} |-> f[p]]

\* every path of tree f below root is in tree g with the same node
KeptBelow(f, g, root) ==
  \A p \in DOMAIN f : Below(p, root) => (p \in DOMAIN g /\ g[p] = f[p])

Registered(t) == t \in DOMAIN AI_TOOLS

\* the tool was present when the last command started
WasPresent(t) == Registered(t) /\ existsSync(pre, toolPath(t))

skillsPath(t) == join(toolPath(t), AI_TOOLS[t].skillsDir)

subagentsPath(t) == join(toolPath(t), AI_TOOLS[t].subagentsDir)

\* all op results of the last command, over all its mirror calls
AllResults == UNION {Range(log[i].results) : i \in 1..Len(log)}

\* the last command was a mirror that got past its fatal checks
MirrorRan == cmd.op = "mirror" /\ WasPresent(cmd.source) /\ Registered(cmd.target)

(***************************************************************************)
(* C1  Dry-run purity                                                      *)
(***************************************************************************)
\* C1: after every mirror (source tool present) or syncAll run with
\* dryRun=true, the tree is identical to the tree before the command.
C1_DryRunPurity ==
  (/\ cmd.op \in {"mirror", "sync"}
   /\ cmd.options.dryRun
   /\ (cmd.op = "mirror" => WasPresent(cmd.source)))
  => fs = pre

(***************************************************************************)
(* C2  Directory entries that exist in the target                          *)
(***************************************************************************)
\* the trees of C2: the source's directory entry d holds leaf files x and y,
\* the target's directory d holds only x, with another content
FillGapCase(d, x, y) ==
  /\ x # y
  /\ LET sd == join(skillsPath(cmd.source), d)
         td == join(skillsPath(cmd.target), d)
     IN  /\ isDirectory(pre, sd) /\ isFile(pre, join(sd, x)) /\ isFile(pre, join(sd, y))
         /\ isDirectory(pre, td) /\ isFile(pre, join(td, x))
         /\ {p \in DOMAIN pre : Below(p, td)} = {join(td, x)}
         /\ pre[join(td, x)] # pre[join(sd, x)]

\* the mirrors of C2: without force, without dry run, skills not filtered out
FillGapMirror ==
  /\ MirrorRan /\ cmd.source # cmd.target
  /\ ~cmd.options.force /\ ~cmd.options.dryRun /\ ~cmd.options.subagentsOnly

\* C2 as stated: in that case the target's d ends with x unchanged and y
\* added with the source's content.
C2_FillGapAsStated ==
  FillGapMirror =>
  \A d \in Range(ListingOrder), x \in Range(ListingOrder), y \in Range(ListingOrder) :
    FillGapCase(d, x, y) =>
      LET sd == join(skillsPath(cmd.source), d)
          td == join(skillsPath(cmd.target), d)
      IN  /\ fs[join(td, x)] = pre[join(td, x)]
          /\ join(td, y) \in DOMAIN fs
          /\ fs[join(td, y)] = pre[join(sd, y)]

\* C2 amended: in that case the op of d is decided skipped-exists and the
\* target's d is left as it was: x with its old content, y not added.
C2_ExistingDirSkipped ==
  FillGapMirror =>
  \A d \in Range(ListingOrder), x \in Range(ListingOrder), y \in Range(ListingOrder) :
    FillGapCase(d, x, y) =>
      LET td == join(skillsPath(cmd.target), d)
      IN  /\ \E r \in AllResults : r.target = td /\ r.decision = "skipped-exists"
          /\ Subtree(fs, td) = Subtree(pre, td)
          /\ join(td, y) \notin DOMAIN fs

C2_Witness ==
  /\ FillGapMirror /\ out = "ok"
  /\ \E d \in Range(ListingOrder), x \in Range(ListingOrder), y \in Range(ListingOrder) :
       /\ FillGapCase(d, x, y)
       /\ \E r \in AllResults : r.decision = "created"

(***************************************************************************)
(* C3  Idempotence without force                                           *)
(***************************************************************************)
\* the last command was a mirror without force and without dry run that
\* ran to its end
PlainMirrorDone ==
  /\ MirrorRan
  /\ ~cmd.options.force /\ ~cmd.options.dryRun
  /\ out \in {"ok", "nothing"}

\* C3: when a mirror(A, B) with force=false has run and the same mirror is
\* run again, the second run leaves the tree as the first run left it and
\* decides every op as skipped-exists.
C3_Idempotent ==
  [][ (PlainMirrorDone /\ cmd' = cmd /\ n' = n + 1)
      => (/\ fs' = fs
          /\ out' \in {"ok", "nothing"}
          /\ \A i \in 1..Len(log') : \A r \in Range(log'[i].results) :
               r.decision = "skipped-exists") ]_vars

\* a second command that is a plain mirror into a target the first command
\* created (its config file carries the clock of the first command), with
\* every op skipped
C3_Witness ==
  /\ PlainMirrorDone /\ n = 2 /\ out = "ok" /\ fs = pre
  /\ cmd.source # cmd.target
  /\ join(toolPath(cmd.target), AI_TOOLS[cmd.target].configFile) \in DOMAIN fs
  /\ fs[join(toolPath(cmd.target), AI_TOOLS[cmd.target].configFile)].content
       = defaultConfig(cmd.target, 0)
  /\ Cardinality(AllResults) >= 2
  /\ \A r \in AllResults : r.decision = "skipped-exists"

(***************************************************************************)
(* C4  Convergence with force                                              *)
(***************************************************************************)
\* the names of the entries (scanned files and directories) of tool t in
\* tree f, per category
EntryNames(f, t, cat) ==
  LET d == detectTools(f)[t]
  IN  {basename(e) : e \in Range(IF cat = "skills" THEN d.skills ELSE d.subagents)}

categoryPath(t, cat) == IF cat = "skills" THEN skillsPath(t) ELSE subagentsPath(t)

\* a sync with force, without dry run and without filter that ran to its end
ForcedSyncDone ==
  /\ cmd.op = "sync"
  /\ cmd.options.force /\ ~cmd.options.dryRun
  /\ ~cmd.options.skillsOnly /\ ~cmd.options.subagentsOnly
  /\ out = "ok"

\* C4: after one complete syncAll(force=true, dryRun=false) over at least two
\* detected tools, every detected tool holds, in each category, every entry
\* name that any detected tool had at the start.
C4_ForceConverges ==
  ForcedSyncDone =>
    \A t \in DOMAIN detectTools(pre), u \in DOMAIN detectTools(pre), cat \in {"skills", "subagents"} :
      \A nm \in EntryNames(pre, u, cat) :
        existsSync(fs, join(categoryPath(t, cat), nm))

\* three detected tools, and an entry that two of them lacked at the start
C4_Witness ==
  /\ ForcedSyncDone
  /\ Cardinality(DOMAIN detectTools(pre)) >= 3
  /\ \E t \in DOMAIN detectTools(pre), u \in DOMAIN detectTools(pre), v \in DOMAIN detectTools(pre) :
       /\ t # u /\ t # v /\ u # v
       /\ \E nm \in EntryNames(pre, u, "skills") :
            /\ ~existsSync(pre, join(skillsPath(t), nm))
            /\ ~existsSync(pre, join(skillsPath(v), nm))
       /\ \E nm \in EntryNames(pre, t, "skills") :
            ~existsSync(pre, join(skillsPath(u), nm))

(***************************************************************************)
(* C5  Failure of one op                                                   *)
(***************************************************************************)
\* C5: in a mirror or sync without dry run, a failing copy does not end the
\* command: every planned op of every mirror call has a result and the
\* command completes.
C5_FailureIsolated ==
  (cmd.op \in {"mirror", "sync"} /\ ~cmd.options.dryRun /\ Len(log) > 0)
  => (/\ out # "crash"
      /\ \A i \in 1..Len(log) : Len(log[i].results) = log[i].planned)

(***************************************************************************)
(* C6  Category filter                                                     *)
(***************************************************************************)
\* no path below root was created or modified by the last command
UntouchedBelow(root) ==
  \A p \in DOMAIN fs : Below(p, root) => (p \in DOMAIN pre /\ fs[p] = pre[p])

\* C6: a mirror with skillsOnly creates or modifies no path below the
\* target's subagents subdirectory, and a mirror with subagentsOnly none
\* below the target's skills subdirectory.
C6_FilterExclusive ==
  (cmd.op = "mirror" /\ Registered(cmd.target)) =>
    /\ cmd.options.skillsOnly => UntouchedBelow(subagentsPath(cmd.target))
    /\ cmd.options.subagentsOnly => UntouchedBelow(skillsPath(cmd.target))

\* a skillsOnly mirror that created a skill while the source held a subagent
\* the target lacks
C6_Witness ==
  /\ MirrorRan /\ out = "ok"
  /\ cmd.options.skillsOnly /\ ~cmd.options.subagentsOnly /\ ~cmd.options.dryRun
  /\ \E r \in AllResults : r.type = "skill" /\ r.decision = "created"
  /\ \E nm \in EntryNames(pre, cmd.source, "subagents") :
       ~existsSync(fs, join(subagentsPath(cmd.target), nm))

(***************************************************************************)
(* C7  Both filters                                                        *)
(***************************************************************************)
BothFilters == MirrorRan /\ cmd.options.skillsOnly /\ cmd.options.subagentsOnly

\* C7 as stated: a mirror with skillsOnly and subagentsOnly reports "nothing
\* to mirror" and writes nothing.
C7_EmptyFilterAsStated == BothFilters => (out = "nothing" /\ fs = pre)

\* the paths initTool creates for tool t
SkeletonPaths(t) ==
  {toolPath(t), skillsPath(t), subagentsPath(t), join(toolPath(t), AI_TOOLS[t].configFile)}

\* C7 amended: such a mirror reports "nothing to mirror", plans no op and
\* leaves every existing path as it was; the only paths it can create are
\* the skeleton of a target tool that was absent.
C7_EmptyFilterNoTransfer ==
  BothFilters =>
    /\ out = "nothing"
    /\ AllResults = {}
    /\ \A p \in DOMAIN pre : p \in DOMAIN fs /\ fs[p] = pre[p]
    /\ DOMAIN fs \ DOMAIN pre \subseteq SkeletonPaths(cmd.target)
    /\ WasPresent(cmd.target) => fs = pre

\* both filters, the source has entries, the target was absent and got its
\* skeleton
C7_Witness ==
  /\ BothFilters /\ out = "nothing"
  /\ EntryNames(pre, cmd.source, "skills") # {}
  /\ ~WasPresent(cmd.target)
  /\ DOMAIN fs \ DOMAIN pre = SkeletonPaths(cmd.target)

(***************************************************************************)
(* C8  No overwrite without force                                          *)
(***************************************************************************)
\* C8: in a mirror with force=false and dryRun=false every op whose target
\* path exists is decided skipped-exists, and no path that existed under the
\* target tool keeps anything but its old content.
C8_NoOverwrite ==
  (MirrorRan /\ ~cmd.options.force /\ ~cmd.options.dryRun) =>
    /\ \A r \in AllResults : r.target \in DOMAIN pre => r.decision = "skipped-exists"
    /\ \A p \in DOMAIN pre : Under(p, toolPath(cmd.target)) => (p \in DOMAIN fs /\ fs[p] = pre[p])

\* a plain mirror that skipped an existing file of another content and
\* created a missing entry
C8_Witness ==
  /\ PlainMirrorDone /\ cmd.source # cmd.target
  /\ \E r \in AllResults :
       /\ r.decision = "skipped-exists"
       /\ isFile(pre, r.target)
       /\ pre[r.target] # pre[join(categoryPath(cmd.source, IF r.type = "skill" THEN "skills" ELSE "subagents"), r.name)]
  /\ \E r \in AllResults : r.decision = "created"

(***************************************************************************)
(* C9, C10  The registry keeps one entry per name                          *)
(***************************************************************************)
\* the registry path of the skill the last command named
registryPath == join(GLOBAL_SKILLS_DIR, cmd.name)

\* the last command was an add of a name the registry already held, from a
\* source that exists
AddOfExisting ==
  /\ cmd.op = "add"
  /\ existsSync(pre, registryPath)
  /\ ResolveSource(pre, cmd.name, cmd.path) # <<>>
  /\ existsSync(pre, ResolveSource(pre, cmd.name, cmd.path))

\* C9: an add without force of a name the registry holds leaves the entry as
\* it was and ends with a warning, not an error.
C9_RegistryUnique ==
  (AddOfExisting /\ ~cmd.options.force) =>
    /\ out = "warn-exists"
    /\ ExitCode(out) = 0
    /\ Subtree(fs, registryPath) = Subtree(pre, registryPath)

\* the registry holds a file for the name, and the add names a source file
\* of another content
C9_Witness ==
  /\ AddOfExisting /\ ~cmd.options.force
  /\ out = "warn-exists"
  /\ isFile(pre, registryPath)
  /\ isFile(pre, ResolveSource(pre, cmd.name, cmd.path))
  /\ pre[ResolveSource(pre, cmd.name, cmd.path)] # pre[registryPath]

\* C10: an add with --force of a name the registry holds is not refused,
\* and the entry then is the new source.
C10_ForcedAddReplaces ==
  (AddOfExisting /\ cmd.options.force) =>
    /\ out = "added"
    /\ isFile(pre, ResolveSource(pre, cmd.name, cmd.path)) =>
         (isFile(fs, registryPath) /\ fs[registryPath] = pre[ResolveSource(pre, cmd.name, cmd.path)])

(***************************************************************************)
(* C11  Unknown tool ids                                                   *)
(***************************************************************************)
\* the last command was given a tool id that is not in the registry
UnknownToolGiven ==
  \/ cmd.op = "init" /\ ~Registered(cmd.target)
  \/ cmd.op = "mirror" /\ (~Registered(cmd.source) \/ ~Registered(cmd.target))
  \/ cmd.op = "install" /\ cmd.target # "" /\ ~Registered(cmd.target)

\* C11: every init, mirror or global install that is given an unregistered
\* tool id ends with a non-zero exit status.
C11_UnknownToolFatal == UnknownToolGiven => ExitCode(out) = 1

(***************************************************************************)
(* C12, C13  Install is conservative                                       *)
(***************************************************************************)
\* the install log lines of tool t
InstallLines(t) == {log[i] : i \in {j \in 1..Len(log) : log[j].target = t}}

\* C12: a global install, with or without --force, leaves every entry of
\* that name that a tool's skills subdirectory already held as it was, and
\* never reports that tool as installed.
C12_InstallNeverOverwrites ==
  cmd.op = "install" =>
    \A t \in DOMAIN AI_TOOLS :
      LET e == join(skillsPath(t), cmd.name)
      IN  existsSync(pre, e) =>
            /\ Subtree(fs, e) = Subtree(pre, e)
            /\ \A l \in InstallLines(t) : l.out = "skipped-exists"

\* a forced install over a tool that held a file of that name with another
\* content than the registry's
C12_Witness ==
  /\ cmd.op = "install" /\ cmd.options.force /\ out = "installed"
  /\ isFile(pre, registryPath)
  /\ \E t \in DOMAIN AI_TOOLS :
       /\ isFile(pre, join(skillsPath(t), cmd.name))
       /\ pre[join(skillsPath(t), cmd.name)] # pre[registryPath]
       /\ InstallLines(t) = {InstallRec(t, "skipped-exists")}

\* the last command was an install into one named, registered tool whose
\* root directory was absent
InstallIntoAbsent ==
  /\ cmd.op = "install" /\ cmd.target # ""
  /\ Registered(cmd.target) /\ ~WasPresent(cmd.target)

\* C13: an install into a registered tool whose root is absent creates and
\* changes nothing in the working tree, and when the skill is in the
\* registry it completes with the one warning that the tool is skipped.
C13_InstallSkipsAbsentTool ==
  InstallIntoAbsent =>
    /\ \A p \in DOMAIN fs : p[1] # "~" => (p \in DOMAIN pre /\ fs[p] = pre[p])
    /\ existsSync(pre, registryPath) =>
         (out = "installed" /\ log = <<InstallRec(cmd.target, "skipped-absent")>> /\ fs = pre)

\* a directory skill of the registry, installed into an absent tool
C13_Witness ==
  /\ InstallIntoAbsent
  /\ isDirectory(pre, registryPath)
  /\ log = <<InstallRec(cmd.target, "skipped-absent")>>
  /\ ~existsSync(fs, toolPath(cmd.target))

(***************************************************************************)
(* C14  The pairs of a sync                                                *)
(***************************************************************************)
\* the tools present when the last command started, in registry order
ToolsAtStart == SelectSeq(ToolOrder, LAMBDA t : existsSync(pre, toolPath(t)))

\* every ordered pair of distinct tools: outer loop over the first, inner
\* loop over the second, both in the order of tools
OrderedPairs(tools) ==
  LET k == Len(tools)
  IN  [m \in 1..(k * (k - 1)) |->
         LET i == ((m - 1) \div (k - 1)) + 1
             r == ((m - 1) % (k - 1)) + 1
             j == IF r < i THEN r ELSE r + 1
         IN  <<tools[i], tools[j]>>]

\* the <<source, target>> of the mirror calls of the last command, in order
MirrorCalls == [i \in 1..Len(log) |-> <<log[i].source, log[i].target>>]

\* C14: a sync over two or more detected tools calls mirror exactly once
\* for every ordered pair of distinct tools, in loop order; over fewer it
\* calls no mirror and changes nothing.
C14_FullMeshOrder ==
  cmd.op = "sync" =>
    IF Len(ToolsAtStart) >= 2
    THEN MirrorCalls = OrderedPairs(ToolsAtStart)
    ELSE log = <<>> /\ fs = pre /\ out = "insufficient"

(***************************************************************************)
(* C15  init                                                               *)
(***************************************************************************)
\* the config file of tool t
configPath(t) == join(toolPath(t), AI_TOOLS[t].configFile)

\* the last command was an init of a registered tool whose root was absent
InitOfAbsent == cmd.op = "init" /\ Registered(cmd.target) /\ ~WasPresent(cmd.target)

\* C15: init of a registered tool whose root is absent ends with the root,
\* the skills and the subagents subdirectories and the config file present,
\* the config holding the tool id as name and version "1.0.0".
C15_InitScenario ==
  InitOfAbsent =>
    /\ out = "ok"
    /\ isDirectory(fs, toolPath(cmd.target)) /\ toolPath(cmd.target) \in DOMAIN fs
    /\ isDirectory(fs, skillsPath(cmd.target))
    /\ isDirectory(fs, subagentsPath(cmd.target))
    /\ isFile(fs, configPath(cmd.target))
    /\ fs[configPath(cmd.target)].content.name = cmd.target
    /\ fs[configPath(cmd.target)].content.version = "1.0.0"

\* an init in a working directory that held no tool directory at all
C15_Witness ==
  /\ InitOfAbsent /\ out = "ok"
  /\ \A t \in DOMAIN AI_TOOLS : ~existsSync(pre, toolPath(t))
  /\ DOMAIN fs \ DOMAIN pre = SkeletonPaths(cmd.target)

(***************************************************************************)
(* C16  What a pair of a sync transfers                                    *)
(***************************************************************************)
\* the names under directory dir of tree f that are directories or regular
\* files named *.md or *.json
EntriesIn(f, dir) ==
  {nm \in Range(ListingOrder) :
     /\ join(dir, nm) \in DOMAIN f
     /\ \/ f[join(dir, nm)].kind = "dir"
        \/ (f[join(dir, nm)].kind = "file" /\ (endsWith(nm, ".md") \/ endsWith(nm, ".json")))}

typeOf(cat) == IF cat = "skills" THEN "skill" ELSE "subagent"

\* the categories the filter flags of the last command let through
Included ==
  {cat \in {"skills", "subagents"} :
     IF cat = "skills" THEN ~cmd.options.subagentsOnly ELSE ~cmd.options.skillsOnly}

\* the names the i-th mirror call of the last command has a result for
NamesOf(i, cat) == {r.name : r \in {q \in Range(log[i].results) : q.type = typeOf(cat)}}

\* the names earlier mirror calls of the last command created in tool t
CreatedBefore(i, t, cat) ==
  UNION {{r.name : r \in {q \in Range(log[j].results) : q.type = typeOf(cat) /\ q.decision = "created"}} :
           j \in {k \in 1..(i - 1) : log[k].target = t}}

\* C16 as stated: every entry a pair of a sync transfers was an entry of the
\* pair's source tool when the sync started.
C16_SingleSnapshot ==
  cmd.op = "sync" =>
    \A i \in 1..Len(log) : \A r \in Range(log[i].results) :
      r.name \in EntriesIn(pre, categoryPath(log[i].source, IF r.type = "skill" THEN "skills" ELSE "subagents"))

\* C16 amended: every pair of a sync transfers the entries its source tool
\* holds when the pair is processed: those of the start of the run and those
\* that earlier pairs of the run created in it.
C16_RescanPerPair ==
  cmd.op = "sync" =>
    \A i \in 1..Len(log) : \A cat \in {"skills", "subagents"} :
      LET held == IF cat \in Included
                  THEN EntriesIn(pre, categoryPath(log[i].source, cat))
                       \cup CreatedBefore(i, log[i].source, cat)
                  ELSE {}
      IN  IF log[i].out = "crash"
          THEN NamesOf(i, cat) \subseteq held
          ELSE NamesOf(i, cat) = held

\* a complete sync in which a pair transferred a name its source tool got
\* from an earlier pair
C16_Witness ==
  /\ cmd.op = "sync" /\ out = "ok" /\ ~cmd.options.dryRun
  /\ \E i \in 1..Len(log) : \E nm \in NamesOf(i, "skills") :
       /\ nm \notin EntriesIn(pre, skillsPath(log[i].source))
       /\ nm \in CreatedBefore(i, log[i].source, "skills")

(***************************************************************************)
(* C17  What an install into all tools leaves                              *)
(***************************************************************************)
\* C17: a global install without a tool argument of a skill the registry
\* holds ends with every detected tool holding an entry of that name under
\* its skills subdirectory.
C17_InstallReachesAll ==
  (cmd.op = "install" /\ cmd.target = "" /\ existsSync(pre, registryPath)) =>
    \A t \in Range(ToolsAtStart) : existsSync(fs, join(skillsPath(t), cmd.name))

(***************************************************************************)
(* C18  Mirror into an absent target                                       *)
(***************************************************************************)
\* the last command was a mirror without dry run into a target tool whose
\* root was absent
MirrorIntoAbsent == MirrorRan /\ ~cmd.options.dryRun /\ ~WasPresent(cmd.target)

\* C18: such a mirror ends with the target's skeleton present (root, skills
\* and subagents subdirectories, config stub), and every op it planned is
\* decided created.
C18_TargetAutoInit ==
  MirrorIntoAbsent =>
    /\ out \in {"ok", "nothing"}
    /\ isDirectory(fs, toolPath(cmd.target)) /\ toolPath(cmd.target) \in DOMAIN fs
    /\ isDirectory(fs, skillsPath(cmd.target))
    /\ isDirectory(fs, subagentsPath(cmd.target))
    /\ isFile(fs, configPath(cmd.target))
    /\ fs[configPath(cmd.target)].content = defaultConfig(cmd.target, n - 1)
    /\ \A i \in 1..Len(log) :
         /\ Len(log[i].results) = log[i].planned
         /\ \A r \in Range(log[i].results) : r.decision = "created" /\ existsSync(fs, r.target)

\* a mirror into an absent target that created a skill and a subagent
C18_Witness ==
  /\ MirrorIntoAbsent /\ out = "ok"
  /\ \E r \in AllResults : r.type = "skill" /\ r.decision = "created"
  /\ \E r \in AllResults : r.type = "subagent" /\ r.decision = "created"

(***************************************************************************)
(* C19  What the scanner reports                                           *)
(***************************************************************************)
\* the scan of one category lists, once each and by their full path, the
\* names EntriesIn selects under dir
ListsEntries(f, scanned, dir) ==
  /\ {basename(e) : e \in Range(scanned)} = EntriesIn(f, dir)
  /\ Cardinality(Range(scanned)) = Len(scanned)
  /\ \A e \in Range(scanned) : e = join(dir, basename(e))

\* the source path of an op result of the i-th mirror call
sourceOf(i, r) ==
  join(categoryPath(log[i].source, IF r.type = "skill" THEN "skills" ELSE "subagents"), r.name)

\* C19: the scan of the tree reports a tool iff its root exists, an empty
\* list for a missing category directory, and as the entries of a category
\* exactly its directories and its regular files named *.md or *.json; no
\* mirror call transfers a regular file of another name.
C19_ScannerSelection ==
  LET detected == detectTools(fs)
  IN  /\ \A t \in DOMAIN AI_TOOLS : t \in DOMAIN detected <=> toolPath(t) \in DOMAIN fs
      /\ \A t \in DOMAIN detected :
           /\ ListsEntries(fs, detected[t].skills, skillsPath(t))
           /\ ListsEntries(fs, detected[t].subagents, subagentsPath(t))
           /\ ~existsSync(fs, skillsPath(t)) => detected[t].skills = <<>>
           /\ ~existsSync(fs, subagentsPath(t)) => detected[t].subagents = <<>>
      /\ \A i \in 1..Len(log) : \A r \in Range(log[i].results) :
           \/ isDirectory(fs, sourceOf(i, r))
           \/ isFile(fs, sourceOf(i, r)) /\ (endsWith(r.name, ".md") \/ endsWith(r.name, ".json"))

\* a mirror that created entries in the target while the source held a
\* regular file of another extension, which the target still lacks
C19_Witness ==
  /\ MirrorRan /\ out = "ok" /\ ~cmd.options.dryRun /\ cmd.source # cmd.target
  /\ \E r \in AllResults : r.decision = "created" /\ isDirectory(fs, r.target)
  /\ \E r \in AllResults : r.decision = "created" /\ isFile(fs, r.target)
  /\ \E nm \in Range(ListingOrder) :
       /\ isFile(pre, join(skillsPath(cmd.source), nm))
       /\ ~endsWith(nm, ".md") /\ ~endsWith(nm, ".json")
       /\ ~existsSync(fs, join(skillsPath(cmd.target), nm))

(***************************************************************************)
(* C20  The recursive copier                                               *)
(***************************************************************************)
\* the last step was a copyDirectory that returned
CopyDone == cmd.op = "copy" /\ out = "ok"

\* the path under target that corresponds to path p under source
Counterpart(p, source, target) == target \o SubSeq(p, Len(source) + 1, Len(p))

\* C20: a copyDirectory that returns leaves under the target every
\* sub-directory of the source and an entry for every leaf file of the
\* source; a leaf whose path the target already held is left as it was when
\* overwrite is false and has the source's content when overwrite is true, a
\* leaf the target lacked has the source's content; every other path of the
\* tree, the target's files absent from the source included, is kept as it
\* was.
C20_CopierGating ==
  CopyDone =>
    LET source == cmd.path[1]
        target == cmd.path[2]
        copied == {p \in DOMAIN pre : Below(p, source)}
    IN  /\ target \in DOMAIN fs /\ isDirectory(fs, target)
        /\ \A p \in copied :
             LET q == Counterpart(p, source, target)
             IN  /\ q \in DOMAIN fs
                 /\ pre[p].kind = "dir" => isDirectory(fs, q)
                 /\ pre[p].kind = "file" =>
                      fs[q] = IF cmd.options.force \/ q \notin DOMAIN pre THEN pre[p] ELSE pre[q]
        /\ \A q \in DOMAIN pre :
             /\ q \in DOMAIN fs
             /\ fs[q] # pre[q] =>
                  /\ cmd.options.force
                  /\ \E p \in copied : q = Counterpart(p, source, target) /\ pre[p].kind = "file"
        /\ \A q \in DOMAIN fs \ DOMAIN pre :
             \/ q \in Prefixes(target)
             \/ \E p \in copied : q = Counterpart(p, source, target)

\* a copy with overwrite false that kept a leaf of another content, added a
\* leaf and a sub-directory, and kept a target file the source lacks
C20_Witness ==
  /\ CopyDone /\ ~cmd.options.force
  /\ LET source == cmd.path[1]
         target == cmd.path[2]
         copied == {p \in DOMAIN pre : Below(p, source)}
     IN  /\ \E p \in copied :
              /\ pre[p].kind = "file"
              /\ Counterpart(p, source, target) \in DOMAIN pre
              /\ pre[Counterpart(p, source, target)] # pre[p]
         /\ \E p \in copied :
              pre[p].kind = "file" /\ Counterpart(p, source, target) \notin DOMAIN pre
         /\ \E p \in copied :
              pre[p].kind = "dir" /\ Counterpart(p, source, target) \notin DOMAIN pre
         /\ \E q \in DOMAIN pre :
              /\ Below(q, target) /\ pre[q].kind = "file"
              /\ \A p \in copied : q # Counterpart(p, source, target)

(***************************************************************************)
(* C21  The error exits of mirror                                          *)
(***************************************************************************)
\* the last step was a mirror between registered tools whose source root
\* did not exist
SourceAbsentGiven ==
  /\ cmd.op = "mirror"
  /\ Registered(cmd.source) /\ Registered(cmd.target)
  /\ ~existsSync(pre, toolPath(cmd.source))

\* C21: a mirror with an unregistered source or target id ends with
\* UnknownTool, a mirror whose source tool root is absent ends with
\* SourceNotFound, and in both cases the tree is exactly the tree before the
\* command: no path is created or modified, and an absent target tool is not
\* initialized.
C21_MirrorErrorsPure ==
  /\ (cmd.op = "mirror" /\ UnknownToolGiven) => out = "UnknownTool" /\ fs = pre /\ log = <<>>
  /\ SourceAbsentGiven => out = "SourceNotFound" /\ fs = pre /\ log = <<>>
  /\ (cmd.op = "mirror" /\ out \in {"UnknownTool", "SourceNotFound"}) => fs = pre

\* a mirror from an absent source into an absent target, which stays absent
C21_Witness ==
  /\ SourceAbsentGiven
  /\ ~existsSync(pre, toolPath(cmd.target))
  /\ out = "SourceNotFound"
  /\ ~existsSync(fs, toolPath(cmd.target))

(***************************************************************************)
(* C22  Presence after one sync without force                              *)
(***************************************************************************)
\* a sync without force, without dry run and without filter that ran to its
\* end over at least two detected tools
PlainSyncDone ==
  /\ cmd.op = "sync"
  /\ ~cmd.options.force /\ ~cmd.options.dryRun
  /\ ~cmd.options.skillsOnly /\ ~cmd.options.subagentsOnly
  /\ out = "ok"

\* C22: after one complete syncAll(force=false, dryRun=false) without filter
\* over at least two detected tools, every tool detected at the start holds,
\* in each category, every top-level entry name that any detected tool had
\* at the start.
C22_PlainSyncConverges ==
  PlainSyncDone =>
    LET detected == detectTools(pre)
    IN  /\ Len(DetectedKeys(detected)) >= 2
        /\ \A t \in DOMAIN detected, u \in DOMAIN detected, cat \in {"skills", "subagents"} :
             \A nm \in EntryNames(pre, u, cat) :
               existsSync(fs, join(categoryPath(t, cat), nm))

\* three detected tools; an entry of a later tool that an earlier tool
\* lacked, an entry of an earlier tool that a later tool lacked, and an
\* entry that two tools keep with different content
C22_Witness ==
  /\ PlainSyncDone
  /\ Len(ToolsAtStart) = 3
  /\ \E i, j \in 1..3, cat \in {"skills", "subagents"} :
       /\ i < j
       /\ \E nm \in EntryNames(pre, ToolsAtStart[j], cat) :
            ~existsSync(pre, join(categoryPath(ToolsAtStart[i], cat), nm))
       /\ \E nm \in EntryNames(pre, ToolsAtStart[i], cat) :
            ~existsSync(pre, join(categoryPath(ToolsAtStart[j], cat), nm))
  /\ \E t \in Range(ToolsAtStart), u \in Range(ToolsAtStart), nm \in Range(ListingOrder) :
       LET a == join(skillsPath(t), nm)
           b == join(skillsPath(u), nm)
       IN  isFile(pre, a) /\ isFile(pre, b) /\ fs[a] # fs[b]

(***************************************************************************)
(* C23  Whose content a forced sync leaves                                 *)
(***************************************************************************)
\* the tools that held nm as an entry of category cat when the last command
\* started, in registry order
HoldersAtStart(cat, nm) ==
  SelectSeq(ToolsAtStart, LAMBDA t : nm \in EntryNames(pre, t, cat))

\* C23: after one complete syncAll(force=true, dryRun=false), for every
\* entry name that was a file entry at the start, every tool detected at
\* the start holds that name with one and the same content: the content the
\* first tool in registry order that had the name held at the start.
C23_ForcedSyncWinner ==
  ForcedSyncDone =>
    \A cat \in {"skills", "subagents"}, nm \in Range(ListingOrder) :
      LET holders == HoldersAtStart(cat, nm)
      IN  (holders # <<>> /\ isFile(pre, join(categoryPath(holders[1], cat), nm))) =>
            \A t \in Range(ToolsAtStart) :
              /\ join(categoryPath(t, cat), nm) \in DOMAIN fs
              /\ fs[join(categoryPath(t, cat), nm)] = pre[join(categoryPath(holders[1], cat), nm)]

\* three detected tools and a name that the first lacked while the second
\* and the third held it with different contents; another name that the
\* first and the second held with different contents
C23_Witness ==
  /\ ForcedSyncDone
  /\ Len(ToolsAtStart) = 3
  /\ \E nm \in Range(ListingOrder) :
       /\ Len(HoldersAtStart("skills", nm)) = 2
       /\ HoldersAtStart("skills", nm)[1] = ToolsAtStart[2]
       /\ isFile(pre, join(skillsPath(ToolsAtStart[2]), nm))
       /\ pre[join(skillsPath(ToolsAtStart[2]), nm)] # pre[join(skillsPath(ToolsAtStart[3]), nm)]
  /\ \E nm \in Range(ListingOrder) :
       /\ Len(HoldersAtStart("subagents", nm)) >= 2
       /\ HoldersAtStart("subagents", nm)[1] = ToolsAtStart[1]
       /\ isFile(pre, join(subagentsPath(ToolsAtStart[1]), nm))
       /\ isFile(pre, join(subagentsPath(ToolsAtStart[2]), nm))
       /\ pre[join(subagentsPath(ToolsAtStart[1]), nm)] # pre[join(subagentsPath(ToolsAtStart[2]), nm)]

(***************************************************************************)
(* C24  Nothing is deleted                                                 *)
(***************************************************************************)
\* path p of the target tool has a counterpart in the source tool: the same
\* relative path under the same category directory
HasSourceCounterpart(p) ==
  \E cat \in {"skills", "subagents"} :
    /\ Below(p, categoryPath(cmd.target, cat))
    /\ Counterpart(p, categoryPath(cmd.target, cat), categoryPath(cmd.source, cat)) \in DOMAIN pre

\* C24: whatever the command and its flags, and however it ends, every path
\* that existed before it exists after it, as a directory or a file as
\* before; and a forced mirror leaves every path of the target tool that has
\* no counterpart in the source tool exactly as it was.
C24_NoDeletion ==
  /\ \A p \in DOMAIN pre : p \in DOMAIN fs /\ fs[p].kind = pre[p].kind
  /\ (MirrorRan /\ cmd.options.force /\ ~cmd.options.dryRun) =>
       \A p \in DOMAIN pre :
         (Under(p, toolPath(cmd.target)) /\ ~HasSourceCounterpart(p)) => fs[p] = pre[p]

\* a forced mirror that updated a directory entry in which the target held
\* a leaf file and a sub-directory the source lacks, next to a top-level
\* entry the source lacks
C24_Witness ==
  /\ MirrorRan /\ cmd.options.force /\ ~cmd.options.dryRun /\ out = "ok"
  /\ \E r \in AllResults :
       /\ r.decision = "updated" /\ isDirectory(pre, r.target)
       /\ \E p \in DOMAIN pre : Below(p, r.target) /\ pre[p].kind = "file" /\ ~HasSourceCounterpart(p)
       /\ \E p \in DOMAIN pre : Below(p, r.target) /\ pre[p].kind = "dir" /\ ~HasSourceCounterpart(p)
       /\ \E p \in DOMAIN pre : Below(p, r.target) /\ pre[p].kind = "file" /\ fs[p] # pre[p]
  /\ \E nm \in EntryNames(pre, cmd.target, "skills") :
       ~existsSync(pre, join(skillsPath(cmd.source), nm))

(***************************************************************************)
(* C25  The source of a mirror is read-only                                *)
(***************************************************************************)
\* the paths that the last command created or changed (none is removed: C24)
Changed == {p \in DOMAIN fs : p \notin DOMAIN pre \/ fs[p] # pre[p]}

\* C25: a mirror from tool A into another tool B, whatever its flags and
\* however it ends, creates, changes and removes no path under A's root;
\* every path it creates or changes lies under B's root.
C25_SourceReadOnly ==
  (cmd.op = "mirror" /\ cmd.source # cmd.target) =>
    /\ Registered(cmd.source) =>
         Subtree(fs, toolPath(cmd.source)) = Subtree(pre, toolPath(cmd.source))
    /\ Changed # {} => Registered(cmd.target)
    /\ \A p \in Changed : Under(p, toolPath(cmd.target))
    /\ DOMAIN pre \subseteq DOMAIN fs

\* a forced mirror that created one entry and overwrote another of the
\* target with the source's content, the target holding entries the source
\* lacks
C25_Witness ==
  /\ MirrorRan /\ cmd.source # cmd.target /\ cmd.options.force /\ out = "ok"
  /\ \E r \in AllResults : r.decision = "created"
  /\ \E r \in AllResults : r.decision = "updated" /\ isFile(pre, r.target) /\ fs[r.target] # pre[r.target]
  /\ \E nm \in EntryNames(pre, cmd.target, "skills") :
       ~existsSync(pre, join(skillsPath(cmd.source), nm))
  /\ Changed # {}

====
